---- MODULE Spec2Model ----
(***************************************************************************)
(* Citation lineage engine of trace-demo: the content and citations tables *)
(* (db/schema.sql), the query helpers of db/index.ts, the server actions   *)
(* of actions/lineage.ts that assemble the lineage forest, the seed script *)
(* and the marker scan of lib/markdown-utils.ts.                           *)
(***************************************************************************)
EXTENDS Integers, Sequences, FiniteSets, TLC

\* chunk_id values. The integers stand for TEXT ids; their order is the order
\* of the ids under SQLite's BINARY collation ("c1" < "c2" < "c3").
ChunkIds == {1, 2, 3}

\* Largest number of rows of the citations table.
MaxEdges == 3

\* Largest number of rows the recursive query may produce from any root of a
\* store that is considered (stores with several cycles through one chunk
\* produce exponentially many rows below the depth cutoff).
MaxRows == 70

\* The literal of "WHERE l.depth < 10".
MaxDepth == 10

\* Largest number of elements of the allChunks array of a run of the seed
\* script, and of its citations array.
MaxSeedChunks == 2
MaxSeedCitations == 1

\* Largest number of rows of the citations table while queries are
\* interleaved.
MaxReaderEdges == 1

\* Largest number of pieces (see Pieces) of a text that is scanned for
\* citation markers.
MaxPieces == 5

\* Largest number of pieces (see MarkdownPieces) of a markdown whose
\* references are parsed.
MaxMarkdownPieces == 4

\* Largest number of pieces (see Pieces) of the string child of a paragraph
\* of the report.
MaxChildPieces == 4

\* Largest number of calls of fetchLineage that have not returned.
MaxFetches == 2

\* Largest number of rows of the citations table while the lineage sheet
\* fetches one lineage at a time.
MaxSheetEdges == 2

VARIABLES
    content,    \* content table: the chunk_id values present (the keys of the
                \* index of its PRIMARY KEY)
    citations,  \* citations table: rows in id (AUTOINCREMENT) order
    op,         \* the query that returned last, "none" before the first one
    arg,        \* its chunkId argument
    ret,        \* what it returned, see Result
    repeated,   \* the query that returned last repeated the one before it
                \* (same function, same chunkId, no write in between)
    contentRows,    \* content table: its rows in rowid order
    foreign_keys,   \* the foreign_keys setting of the connection getDb opens
    pc,         \* seed(): the statement that runs next
    error,      \* seed(): the constraint a statement failed on, "" if none
    before,     \* seed(): the two tables as they were when it was called
    alone,      \* the first query of the run, what it returned, and whether
                \* another query has returned since
    text,       \* extractCitationMarkers: its argument (in InsightReport the
                \* string child of a paragraph)
    markers,    \* extractCitationMarkers: what it returned
    markdown,   \* InsightReport: the markdown it is given
    citationMap,    \* InsightReport: parseCitationMap(markdown)
    parts,      \* processTextWithCitations: what it returned for the child
    selectedChunk,  \* Home: the chunk id of the citation clicked last, 0 for null
    sheetOpen,  \* Home: the lineage sheet is open
    open,       \* CitationLink: its popover is open
    sheet,      \* LineageSheet: its state rootChunk (the chunk shown in its
                \* header, NULL for none), lineage (the forest shown below
                \* it) and loading ("Loading lineage..." shown in its place)
    fetches     \* LineageSheet: the calls of fetchLineage that have not returned

\* The state of the report, ...
reportVars == <<markdown, citationMap, parts>>

\* ... of the page and of the lineage sheet.
pageVars == <<selectedChunk, sheetOpen, open, sheet, fetches>>

vars == <<content, citations, op, arg, ret, repeated, contentRows, foreign_keys,
          pc, error, before, alone, text, markers, markdown, citationMap, parts,
          selectedChunk, sheetOpen, open, sheet, fetches>>

\* LineageRow[] returned by db getFullLineage (lineageRows in the
\* getFullLineage action).
rows == ret.rows

\* LineageNode[] returned by the getFullLineage action, each element a
\* reference to a node object.
roots == ret.roots

\* The node objects that result refers to, by reference.
nodes == ret.nodes

\* Chunk[] returned by the getDirectCitations action.
chunks == ret.chunks

-----------------------------------------------------------------------------
(* Data shapes *)

Citation(s, t) == [source_chunk_id |-> s, target_chunk_id |-> t]

LineageRow(t, d, p) == [target_chunk_id |-> t, depth |-> d, parent_id |-> p]

Chunk(c) == [chunk_id |-> c]

\* The "no row" result of stmt.get.
NULL == [chunk_id |-> 0]

\* A row of the content table. Of its columns only chunk_id (the key) and
\* stage (0 = raw) are read by a constraint or a claim; text and the other
\* columns are stored next to stage by the same INSERT and never read.
ContentRow(c, st) == [chunk_id |-> c, stage |-> st]

\* 0 = raw, 1 = first-order insight.
Stages == {0, 1}

\* The two tables together.
Store(chunkRows, citationRows) == [content |-> chunkRows, citations |-> citationRows]

LineageNode(c, d, ch) == [chunk_id |-> c, depth |-> d, chunk |-> ch, children |-> <<>>]

\* The concatenation of the sequences ss[lo], ..., ss[hi].
RECURSIVE Flatten(_, _, _)
Flatten(ss, lo, hi) ==
    IF lo > hi THEN <<>>
    ELSE IF lo = hi THEN ss[lo]
    ELSE LET mid == (lo + hi) \div 2
         IN  Flatten(ss, lo, mid) \o Flatten(ss, mid + 1, hi)

-----------------------------------------------------------------------------
(* db/index.ts *)

\* SELECT * FROM content WHERE chunk_id = ?
dbGetChunk(chunkId) == IF chunkId \in content THEN Chunk(chunkId) ELSE NULL

\* SELECT ... FROM citations WHERE source_chunk_id = ?   (rows in id order)
dbGetDirectCitations(chunkId) ==
    SelectSeq(citations, LAMBDA c : c.source_chunk_id = chunkId)

\* Base case of the recursive query: the direct citations, depth 1.
BaseSelect(chunkId) ==
    LET cs == SelectSeq(citations, LAMBDA c : c.source_chunk_id = chunkId)
    IN  [i \in 1..Len(cs) |-> LineageRow(cs[i].target_chunk_id, 1, cs[i].source_chunk_id)]

\* RecursiveSelect with "WHERE l.depth <= 10": one level too many.
RecursiveSelectInclusive(l) ==
    IF l.depth <= MaxDepth
    THEN LET cs == SelectSeq(citations, LAMBDA c : c.source_chunk_id = l.target_chunk_id)
         IN  [i \in 1..Len(cs) |-> LineageRow(cs[i].target_chunk_id, l.depth + 1, cs[i].source_chunk_id)]
    ELSE <<>>

\* RecursiveSelect with "l.parent_id as parent_id": the parent of the parent.
RecursiveSelectGrandparent(l) ==
    IF l.depth < MaxDepth
    THEN LET cs == SelectSeq(citations, LAMBDA c : c.source_chunk_id = l.target_chunk_id)
         IN  [i \in 1..Len(cs) |-> LineageRow(cs[i].target_chunk_id, l.depth + 1, l.parent_id)]
    ELSE <<>>

\* Recursive case, run for the single row l taken from the queue.
RecursiveSelect(l) ==
    IF l.depth < MaxDepth
    THEN LET cs == SelectSeq(citations, LAMBDA c : c.source_chunk_id = l.target_chunk_id)
         IN  [i \in 1..Len(cs) |-> LineageRow(cs[i].target_chunk_id, l.depth + 1, cs[i].source_chunk_id)]
    ELSE <<>>

\* The rows of s, each once, in the order of their first occurrence.
Distinct(s) ==
    LET keep == {i \in 1..Len(s) : \A j \in 1..(i - 1) : s[j] # s[i]}
        nth(k) == CHOOSE i \in keep : Cardinality({j \in keep : j < i}) = k - 1
    IN  [k \in 1..Cardinality(keep) |-> s[nth(k)]]

\* RunCte with UNION in place of UNION ALL: a row equal to one already
\* produced is discarded.
RECURSIVE RunCteUnion(_, _)
RunCteUnion(queue, lineage) ==
    LET seen == {lineage[i] : i \in 1..Len(lineage)}
        fresh == Distinct(SelectSeq(queue, LAMBDA r : r \notin seen))
    IN  IF fresh = <<>> THEN lineage
        ELSE RunCteUnion(Flatten([i \in 1..Len(fresh) |-> RecursiveSelect(fresh[i])], 1, Len(fresh)),
                         lineage \o fresh)

\* WITH RECURSIVE ... UNION ALL: rows leave the queue first in, first out; each
\* one is added to the lineage table and its recursive-select results are
\* queued behind the rows already waiting. The rows of one depth therefore
\* leave the queue together, followed by their results in the same order.
RECURSIVE RunCte(_, _)
RunCte(queue, lineage) ==
    IF queue = <<>> THEN lineage
    ELSE RunCte(Flatten([i \in 1..Len(queue) |-> RecursiveSelect(queue[i])], 1, Len(queue)), lineage \o queue)

SeqRange(s) == {s[i] : i \in 1..Len(s)}

\* The chunk ids in ascending order.
SortedIds ==
    CHOOSE s \in [1..Cardinality(ChunkIds) -> ChunkIds] :
        \A i \in 1..(Cardinality(ChunkIds) - 1) : s[i] < s[i + 1]

\* OrderBy with "ORDER BY depth" alone.
OrderByDepth(lineage) ==
    LET depths == {lineage[i].depth : i \in 1..Len(lineage)}
        deepest == IF depths = {} THEN 0 ELSE CHOOSE d \in depths : \A e \in depths : e <= d
    IN  Flatten([d \in 1..deepest |-> SelectSeq(lineage, LAMBDA r : r.depth = d)],
                1, deepest)

\* ORDER BY depth, target_chunk_id; rows with equal keys keep the order in
\* which the lineage table holds them.
OrderBy(lineage) ==
    LET depths == {r.depth : r \in SeqRange(lineage)}
        deepest == IF depths = {} THEN 0 ELSE CHOOSE d \in depths : \A e \in depths : e <= d
        ofDepth(d) == SelectSeq(lineage, LAMBDA r : r.depth = d)
        byTarget(rs) == Flatten([k \in 1..Len(SortedIds) |->
                                    SelectSeq(rs, LAMBDA r : r.target_chunk_id = SortedIds[k])],
                                1, Len(SortedIds))
    IN  Flatten([d \in 1..deepest |-> byTarget(ofDepth(d))], 1, deepest)

dbGetFullLineage(chunkId) == OrderBy(RunCte(BaseSelect(chunkId), <<>>))

-----------------------------------------------------------------------------
(* actions/lineage.ts *)

\* PushChunks without the "if (chunk)" test.
PushChunksUnchecked(cits) ==
    [i \in 1..Len(cits) |-> dbGetChunk(cits[i].target_chunk_id)]

\* for (const citation of citations) { chunk = dbGetChunk(target); if (chunk) push }
RECURSIVE PushChunks(_)
PushChunks(cits) ==
    IF cits = <<>> THEN <<>>
    ELSE LET chunk == dbGetChunk(Head(cits).target_chunk_id)
         IN  (IF chunk # NULL THEN <<chunk>> ELSE <<>>) \o PushChunks(Tail(cits))

getDirectCitations(chunkId) == PushChunks(dbGetDirectCitations(chunkId))

\* First loop: chunkMap holds the chunk of every row whose target resolves.
ChunkMap(lineageRows) ==
    LET found == {r.target_chunk_id : r \in
                     {q \in SeqRange(lineageRows) : dbGetChunk(q.target_chunk_id) # NULL}}
    IN  [c \in found |-> dbGetChunk(c)]

\* Second loop: nodesByChunkId.set(row.target_chunk_id, node) for every row
\* whose chunk is in chunkMap; a later row of the same chunk id replaces the
\* node an earlier row has set, so the node of the last such row stays.
CreateNodes(lineageRows, chunkMap) ==
    LET setFor(c) == SelectSeq(lineageRows, LAMBDA row : row.target_chunk_id = c)
        last(c) == setFor(c)[Len(setFor(c))]
    IN  [c \in DOMAIN chunkMap |-> LineageNode(c, last(c).depth, chunkMap[c])]

\* LinkNodes with "if (!rootNodes.includes(node)) rootNodes.push(node)": a
\* node is pushed on rootNodes once.
LinkNodesOnce(lineageRows, nodesByChunkId) ==
    LET made == DOMAIN nodesByChunkId
        pushedOnRoots ==
            Distinct(SelectSeq(lineageRows,
                               LAMBDA row : row.target_chunk_id \in made /\ row.depth = 1))
    IN  [rows |-> lineageRows,
         roots |-> [i \in 1..Len(pushedOnRoots) |-> pushedOnRoots[i].target_chunk_id],
         chunks |-> <<>>,
         nodes |-> [p \in made |->
             LET pushedOn ==
                     SelectSeq(lineageRows,
                               LAMBDA row : /\ row.target_chunk_id \in made
                                            /\ row.depth # 1
                                            /\ row.parent_id = p)
             IN  [nodesByChunkId[p] EXCEPT
                     !.children = [i \in 1..Len(pushedOn) |-> pushedOn[i].target_chunk_id]]]]

\* Third loop: a row of depth 1 pushes its node on rootNodes, any other row
\* pushes it on the children of the node of its parent_id, if there is one.
\* Rows without a node are skipped. Nodes are named by their chunk id, the
\* key under which nodesByChunkId holds the one object.
LinkNodes(lineageRows, nodesByChunkId) ==
    LET made == DOMAIN nodesByChunkId
        pushedOnRoots ==
            SelectSeq(lineageRows,
                      LAMBDA row : row.target_chunk_id \in made /\ row.depth = 1)
    IN  [rows |-> lineageRows,
         roots |-> [i \in 1..Len(pushedOnRoots) |-> pushedOnRoots[i].target_chunk_id],
         chunks |-> <<>>,
         nodes |-> [p \in made |->
             LET pushedOn ==
                     SelectSeq(lineageRows,
                               LAMBDA row : /\ row.target_chunk_id \in made
                                            /\ row.depth # 1
                                            /\ row.parent_id = p)
             IN  [nodesByChunkId[p] EXCEPT
                     !.children = [i \in 1..Len(pushedOn) |-> pushedOn[i].target_chunk_id]]]]

EmptyMap == [c \in {} |-> NULL]

\* getFullLineage with rootNodes declared at module scope: the array of the
\* call before is pushed on again.
getFullLineageModuleRoots(chunkId) ==
    LET lineageRows == dbGetFullLineage(chunkId)
        chunkMap == ChunkMap(lineageRows)
        nodesByChunkId == CreateNodes(lineageRows, chunkMap)
        linked == LinkNodes(lineageRows, nodesByChunkId)
    IN  [linked EXCEPT !.roots = ret.roots \o @]

\* getFullLineage with nodesByChunkId declared at module scope: the nodes an
\* earlier call has set stay in the map.
getFullLineageModuleMap(chunkId) ==
    LET lineageRows == dbGetFullLineage(chunkId)
        chunkMap == ChunkMap(lineageRows)
        created == CreateNodes(lineageRows, chunkMap)
        nodesByChunkId == [c \in DOMAIN ret.nodes \cup DOMAIN created |->
                              IF c \in DOMAIN created THEN created[c] ELSE ret.nodes[c]]
    IN  LinkNodes(lineageRows, nodesByChunkId)

getFullLineage(chunkId) ==
    LET lineageRows == dbGetFullLineage(chunkId)
        chunkMap == ChunkMap(lineageRows)
        nodesByChunkId == CreateNodes(lineageRows, chunkMap)
    IN  LinkNodes(lineageRows, nodesByChunkId)

-----------------------------------------------------------------------------
(* The stores considered *)

Edges == {Citation(s, t) : s \in ChunkIds, t \in ChunkIds}

EdgeLists == UNION {[1..n -> Edges] : n \in 0..MaxEdges}

RECURSIVE SumOver(_, _)
SumOver(f, S) ==
    IF S = {} THEN 0
    ELSE LET x == CHOOSE y \in S : TRUE IN f[x] + SumOver(f, S \ {x})

\* Number of citation paths of length d, d+1, ..., MaxDepth that extend the
\* paths counted by at (at[v] = number of paths of length d - 1 ending in v).
RECURSIVE CountFrom(_, _, _)
CountFrom(edges, at, d) ==
    IF d > MaxDepth THEN 0
    ELSE LET next == [v \in ChunkIds |->
                 SumOver([i \in 1..Len(edges) |-> at[edges[i].source_chunk_id]],
                         {i \in 1..Len(edges) : edges[i].target_chunk_id = v})]
             here == SumOver(next, ChunkIds)
         IN  IF here = 0 \/ here > MaxRows THEN here
             ELSE here + CountFrom(edges, next, d + 1)

PathCount(edges, root) ==
    CountFrom(edges, [v \in ChunkIds |-> IF v = root THEN 1 ELSE 0], 1)

StoreInBounds(edges) == \A root \in ChunkIds : PathCount(edges, root) <= MaxRows

-----------------------------------------------------------------------------
(* State machine *)

Result(lineageRows, rootNodes, heap, chunkList) ==
    [rows |-> lineageRows, roots |-> rootNodes, nodes |-> heap, chunks |-> chunkList]

NoResult ==
    /\ op = "none"
    /\ arg = 0
    /\ ret = Result(<<>>, <<>>, EmptyMap, <<>>)
    /\ repeated = FALSE

\* The first query of a run and what it returned; NoCall before it.
Call(name, chunkId, result, other) ==
    [op |-> name, arg |-> chunkId, ret |-> result, interleaved |-> other]

NoCall == Call("none", 0, Result(<<>>, <<>>, EmptyMap, <<>>), FALSE)

\* The content rows of the chunk ids of ids, in ascending order of the id,
\* each an insight of stage 1.
RowsFor(ids) ==
    LET held == SelectSeq(SortedIds, LAMBDA c : c \in ids)
    IN  [i \in 1..Len(held) |-> ContentRow(held[i], 1)]

\* No report is rendered.
NoReport ==
    /\ markdown = <<>>
    /\ citationMap = <<>>
    /\ parts = <<>>

\* The useState initial values of Home, CitationLink and LineageSheet.
NoPage ==
    /\ selectedChunk = 0
    /\ sheetOpen = FALSE
    /\ open = FALSE
    /\ sheet = [rootChunk |-> NULL,
                lineage |-> [roots |-> <<>>, nodes |-> EmptyMap],
                loading |-> FALSE]
    /\ fetches = <<>>

\* A database that is only read: the seed script does not run, no text is
\* scanned, no page is rendered. A citation of a chunk id the content table
\* does not hold is in the store only where foreign keys are not enforced.
ReadOnly ==
    /\ contentRows = RowsFor(content)
    /\ foreign_keys = FALSE
    /\ pc = "idle"
    /\ error = ""
    /\ before = Store(<<>>, <<>>)
    /\ text = <<>>
    /\ markers = <<>>
    /\ NoReport
    /\ NoPage

\* The query helpers of db/index.ts never read the content table.
InitDb ==
    /\ citations \in EdgeLists
    /\ StoreInBounds(citations)
    /\ content = ChunkIds
    /\ NoResult
    /\ ReadOnly
    /\ alone = NoCall

\* Any content table: a citation may name a chunk id the table does not hold.
Init ==
    /\ citations \in EdgeLists
    /\ StoreInBounds(citations)
    /\ content \in SUBSET ChunkIds
    /\ NoResult
    /\ ReadOnly
    /\ alone = NoCall

Returned(name, chunkId) ==
    /\ op' = name
    /\ arg' = chunkId
    /\ repeated' = (op = name /\ arg = chunkId)
    /\ UNCHANGED <<content, citations, contentRows, foreign_keys, pc, error, before,
                   text, markers>>
    /\ UNCHANGED <<reportVars, pageVars>>

\* db getFullLineage(chunkId)
DbGetFullLineage(chunkId) ==
    /\ ret' = Result(dbGetFullLineage(chunkId), <<>>, EmptyMap, <<>>)
    /\ Returned("dbGetFullLineage", chunkId)

\* server action getFullLineage(chunkId)
GetFullLineage(chunkId) ==
    /\ ret' = getFullLineage(chunkId)
    /\ Returned("getFullLineage", chunkId)

\* server action getDirectCitations(chunkId)
GetDirectCitations(chunkId) ==
    /\ ret' = Result(<<>>, <<>>, EmptyMap, getDirectCitations(chunkId))
    /\ Returned("getDirectCitations", chunkId)

NextDb ==
    /\ \E chunkId \in ChunkIds : DbGetFullLineage(chunkId)
    /\ UNCHANGED alone

NextLineage ==
    /\ \E chunkId \in ChunkIds : GetFullLineage(chunkId)
    /\ UNCHANGED alone

NextDirect ==
    /\ \E chunkId \in ChunkIds : GetDirectCitations(chunkId)
    /\ UNCHANGED alone

\* server action getChunk(chunkId); the chunk, or NULL, is the one element of
\* the chunk list of the result.
GetChunk(chunkId) ==
    /\ ret' = Result(<<>>, <<>>, EmptyMap, <<dbGetChunk(chunkId)>>)
    /\ Returned("getChunk", chunkId)

\* Any content table and a citations table of up to MaxReaderEdges rows.
InitReaders ==
    /\ citations \in UNION {[1..n -> Edges] : n \in 0..MaxReaderEdges}
    /\ StoreInBounds(citations)
    /\ content \in SUBSET ChunkIds
    /\ NoResult
    /\ ReadOnly
    /\ alone = NoCall

\* The three server actions are async functions without an await: a call
\* runs from its first statement to its return before another call starts, so
\* concurrent calls are interleaved call by call, in any order.
NextReaders ==
    /\ \E chunkId \in ChunkIds :
           \/ GetChunk(chunkId)
           \/ GetDirectCitations(chunkId)
           \/ GetFullLineage(chunkId)
    /\ alone' = IF op = "none" THEN Call(op', arg', ret', FALSE)
                ELSE IF op' = alone.op /\ arg' = alone.arg THEN alone
                ELSE [alone EXCEPT !.interleaved = TRUE]

\* The recursive query alone.
SpecDb == InitDb /\ [][NextDb]_vars

\* The lineage forest of the server action.
SpecLineage == Init /\ [][NextLineage]_vars

\* The direct citations of the server action.
SpecDirect == Init /\ [][NextDirect]_vars

\* Concurrent queries of several clients.
SpecReaders == InitReaders /\ [][NextReaders]_vars

-----------------------------------------------------------------------------
(* The seed script: seed() *)

\* insertStmt.run without the PRIMARY KEY of the content table: no row is
\* refused.
insertStmtRunUnkeyed(chunk) == ""

\* insertStmt.run(chunk.chunk_id, ...): the constraint the INSERT fails on, ""
\* if the row is inserted. chunk_id is the PRIMARY KEY of the table.
insertStmtRun(chunk) ==
    IF chunk.chunk_id \in content THEN "SQLITE_CONSTRAINT_PRIMARYKEY" ELSE ""

\* citationStmt.run(source, target, marker): the constraint the INSERT fails
\* on, "" if the row is inserted. The two FOREIGN KEY clauses of the table are
\* checked only by a connection whose foreign_keys setting is on; the table
\* has no other constraint on the two columns.
citationStmtRun(source, target) ==
    IF foreign_keys /\ ~({source, target} \subseteq content)
    THEN "SQLITE_CONSTRAINT_FOREIGNKEY"
    ELSE ""

SeedFrame ==
    UNCHANGED <<foreign_keys, before, op, arg, ret, repeated, alone, text, markers,
                reportVars, pageVars>>

\* DeleteCitations without the statement: the citations of the run before
\* stay.
DeleteCitationsSkipped ==
    /\ pc = "deleteCitations"
    /\ pc' = "deleteContent"
    /\ UNCHANGED <<content, contentRows, citations, error>>
    /\ SeedFrame

\* db.prepare("DELETE FROM citations").run()
DeleteCitations ==
    /\ pc = "deleteCitations"
    /\ citations' = <<>>
    /\ pc' = "deleteContent"
    /\ UNCHANGED <<content, contentRows, error>>
    /\ SeedFrame

\* db.prepare("DELETE FROM content").run(); no citations row is left that
\* could refer to a row deleted here.
DeleteContent ==
    /\ pc = "deleteContent"
    /\ contentRows' = <<>>
    /\ content' = {}
    /\ pc' = "insertChunks"
    /\ UNCHANGED <<citations, error>>
    /\ SeedFrame

\* InsertChunk with "INSERT OR REPLACE INTO content": the row that holds the
\* chunk_id is deleted and the new one inserted.
InsertOrReplaceChunk(chunk) ==
    /\ pc = "insertChunks"
    /\ contentRows' = Append(SelectSeq(contentRows, LAMBDA r : r.chunk_id # chunk.chunk_id),
                              chunk)
    /\ content' = content \cup {chunk.chunk_id}
    /\ UNCHANGED <<pc, error, citations>>
    /\ SeedFrame

\* One turn of allChunks.forEach: the exception of a failed INSERT ends the
\* script.
InsertChunk(chunk) ==
    /\ pc = "insertChunks"
    /\ LET failedOn == insertStmtRun(chunk)
       IN  IF failedOn = ""
           THEN /\ contentRows' = Append(contentRows, chunk)
                /\ content' = content \cup {chunk.chunk_id}
                /\ UNCHANGED <<pc, error>>
           ELSE /\ pc' = "failed"
                /\ error' = failedOn
                /\ UNCHANGED <<content, contentRows>>
    /\ UNCHANGED citations
    /\ SeedFrame

\* allChunks.forEach has returned.
ChunksInserted ==
    /\ pc = "insertChunks"
    /\ pc' = "insertCitations"
    /\ UNCHANGED <<content, contentRows, citations, error>>
    /\ SeedFrame

\* One turn of citations.forEach.
InsertCitation(source, target) ==
    /\ pc = "insertCitations"
    /\ LET failedOn == citationStmtRun(source, target)
       IN  IF failedOn = ""
           THEN /\ citations' = Append(citations, Citation(source, target))
                /\ UNCHANGED <<pc, error>>
           ELSE /\ pc' = "failed"
                /\ error' = failedOn
                /\ UNCHANGED citations
    /\ UNCHANGED <<content, contentRows>>
    /\ SeedFrame

\* citations.forEach has returned, and seed() with it.
CitationsInserted ==
    /\ pc = "insertCitations"
    /\ pc' = "done"
    /\ UNCHANGED <<content, contentRows, citations, error>>
    /\ SeedFrame

\* What an earlier run of the script that had one chunk and one citation to
\* insert, or none, has left in the content table ...
PriorContent == {<<>>} \cup {<<ContentRow(c, st)>> : c \in ChunkIds, st \in Stages}

\* ... and in the citations table.
PriorCitations == {<<>>} \cup {<<e>> : e \in Edges}

\* seed() is called on a database an earlier run has left, or a new one. The
\* arrays stage0, stage1, stage2 and citations of the script are the data of
\* the run: the turns of the two forEach loops take any chunk and any
\* citation over ChunkIds.
InitSeed ==
    /\ foreign_keys \in BOOLEAN
    /\ contentRows \in PriorContent
    /\ content = {contentRows[i].chunk_id : i \in 1..Len(contentRows)}
    /\ citations \in PriorCitations
    /\ foreign_keys =>
           \A i \in 1..Len(citations) :
               {citations[i].source_chunk_id, citations[i].target_chunk_id} \subseteq content
    /\ before = Store(contentRows, citations)
    /\ pc = "deleteCitations"
    /\ error = ""
    /\ NoResult
    /\ alone = NoCall
    /\ text = <<>>
    /\ markers = <<>>
    /\ NoReport
    /\ NoPage

NextSeed ==
    \/ DeleteCitations
    \/ DeleteContent
    \/ \E c \in ChunkIds, st \in Stages :
           Len(contentRows) < MaxSeedChunks /\ InsertChunk(ContentRow(c, st))
    \/ ChunksInserted
    \/ \E source \in ChunkIds, target \in ChunkIds :
           Len(citations) < MaxSeedCitations /\ InsertCitation(source, target)
    \/ CitationsInserted

\* One run of the seed script.
SpecSeed == InitSeed /\ [][NextSeed]_vars

\* The arrays of the script as it is: the chunks by stage ...
stage0 ==
    <<ContentRow("raw_market_survey_chunk_1", 0),
      ContentRow("raw_competitor_report_chunk_2", 0),
      ContentRow("raw_customer_feedback_chunk_3", 0),
      ContentRow("raw_industry_analysis_chunk_4", 0),
      ContentRow("raw_financial_data_chunk_5", 0),
      ContentRow("raw_tech_trends_chunk_6", 0),
      ContentRow("raw_pricing_analysis_chunk_7", 0),
      ContentRow("raw_security_compliance_chunk_8", 0),
      ContentRow("raw_user_engagement_chunk_9", 0),
      ContentRow("raw_market_expansion_chunk_10", 0)>>

stage1 ==
    <<ContentRow("ins_market_trends_chunk_1", 1),
      ContentRow("ins_competitive_position_chunk_2", 1),
      ContentRow("ins_customer_sentiment_chunk_3", 1),
      ContentRow("ins_financial_performance_chunk_4", 1),
      ContentRow("ins_cloud_migration_chunk_5", 1),
      ContentRow("ins_pricing_strategy_chunk_6", 1),
      ContentRow("ins_product_engagement_chunk_7", 1),
      ContentRow("ins_geographic_expansion_chunk_8", 1)>>

stage2 ==
    <<ContentRow("ins_strategic_analysis_chunk_1", 2),
      ContentRow("ins_growth_opportunity_chunk_2", 2),
      ContentRow("ins_product_market_fit_chunk_3", 2),
      ContentRow("ins_competitive_moat_chunk_4", 2)>>

allChunks == stage0 \o stage1 \o stage2

\* ... and the citations array (source, target; the marker is stored next to
\* them and read by no constraint).
citationsArray ==
    <<Citation("ins_market_trends_chunk_1", "raw_market_survey_chunk_1"),
      Citation("ins_competitive_position_chunk_2", "raw_competitor_report_chunk_2"),
      Citation("ins_customer_sentiment_chunk_3", "raw_customer_feedback_chunk_3"),
      Citation("ins_financial_performance_chunk_4", "raw_financial_data_chunk_5"),
      Citation("ins_cloud_migration_chunk_5", "raw_tech_trends_chunk_6"),
      Citation("ins_pricing_strategy_chunk_6", "raw_pricing_analysis_chunk_7"),
      Citation("ins_product_engagement_chunk_7", "raw_user_engagement_chunk_9"),
      Citation("ins_geographic_expansion_chunk_8", "raw_market_expansion_chunk_10"),
      Citation("ins_strategic_analysis_chunk_1", "ins_market_trends_chunk_1"),
      Citation("ins_strategic_analysis_chunk_1", "ins_customer_sentiment_chunk_3"),
      Citation("ins_strategic_analysis_chunk_1", "raw_competitor_report_chunk_2"),
      Citation("ins_growth_opportunity_chunk_2", "raw_industry_analysis_chunk_4"),
      Citation("ins_growth_opportunity_chunk_2", "ins_financial_performance_chunk_4"),
      Citation("ins_growth_opportunity_chunk_2", "ins_customer_sentiment_chunk_3"),
      Citation("ins_growth_opportunity_chunk_2", "ins_geographic_expansion_chunk_8"),
      Citation("ins_product_market_fit_chunk_3", "ins_product_engagement_chunk_7"),
      Citation("ins_product_market_fit_chunk_3", "ins_pricing_strategy_chunk_6"),
      Citation("ins_product_market_fit_chunk_3", "raw_tech_trends_chunk_6"),
      Citation("ins_product_market_fit_chunk_3", "raw_security_compliance_chunk_8"),
      Citation("ins_competitive_moat_chunk_4", "ins_customer_sentiment_chunk_3"),
      Citation("ins_competitive_moat_chunk_4", "raw_pricing_analysis_chunk_7"),
      Citation("ins_competitive_moat_chunk_4", "raw_security_compliance_chunk_8"),
      Citation("ins_competitive_moat_chunk_4", "raw_competitor_report_chunk_2")>>

\* The database initDb has just created: both tables are empty.
InitSeedData ==
    /\ foreign_keys \in BOOLEAN
    /\ contentRows = <<>>
    /\ content = {}
    /\ citations = <<>>
    /\ before = Store(<<>>, <<>>)
    /\ pc = "deleteCitations"
    /\ error = ""
    /\ NoResult
    /\ alone = NoCall
    /\ text = <<>>
    /\ markers = <<>>
    /\ NoReport
    /\ NoPage

\* The script is run again on the database it has seeded ("Reseed database"
\* of the README).
Reseed ==
    /\ pc = "done"
    /\ pc' = "deleteCitations"
    /\ before' = Store(contentRows, citations)
    /\ UNCHANGED <<content, contentRows, citations, error, foreign_keys, op, arg, ret,
                   repeated, alone, text, markers, reportVars, pageVars>>

\* The turns of the two forEach loops take the elements of the arrays in
\* order; both tables are empty when the first loop starts, so the number
\* of rows is the number of turns taken.
NextSeedData ==
    \/ DeleteCitations
    \/ DeleteContent
    \/ Len(contentRows) < Len(allChunks) /\ InsertChunk(allChunks[Len(contentRows) + 1])
    \/ Len(contentRows) = Len(allChunks) /\ ChunksInserted
    \/ /\ Len(citations) < Len(citationsArray)
       /\ InsertCitation(citationsArray[Len(citations) + 1].source_chunk_id,
                         citationsArray[Len(citations) + 1].target_chunk_id)
    \/ Len(citations) = Len(citationsArray) /\ CitationsInserted
    \/ Reseed

\* The seed script with the data it ships, run once or repeatedly.
SpecSeedData == InitSeedData /\ [][NextSeedData]_vars

-----------------------------------------------------------------------------
(* lib/markdown-utils.ts: extractCitationMarkers *)

\* A string is the sequence of its characters. \d of the regular expression:
Digits == {"1", "2"}

\* The index behind the longest run of digits of s that starts at index i.
RECURSIVE DigitsEnd(_, _)
DigitsEnd(s, i) ==
    IF i <= Len(s) /\ s[i] \in Digits THEN DigitsEnd(s, i + 1) ELSE i

\* /\[(\d+)\]/ tried at index i of s: the index behind the match, 0 if there
\* is none. After "[" the digits are taken greedily; giving one back cannot
\* help, the character behind a shorter run being a digit.
MatchAt(s, i) ==
    IF s[i] # "[" THEN 0
    ELSE LET j == DigitsEnd(s, i + 1)
         IN  IF j > i + 1 /\ j <= Len(s) /\ s[j] = "]" THEN j + 1 ELSE 0

\* The while loop without the "if (!markers.includes(marker))" test.
RECURSIVE ExecLoopPushAll(_, _, _)
ExecLoopPushAll(s, lastIndex, found) ==
    IF lastIndex > Len(s) THEN found
    ELSE LET end == MatchAt(s, lastIndex)
         IN  IF end = 0 THEN ExecLoopPushAll(s, lastIndex + 1, found)
             ELSE ExecLoopPushAll(s, end, Append(found, SubSeq(s, lastIndex, end - 1)))

\* while ((match = regex.exec(text)) !== null): exec looks for the leftmost
\* match at or behind lastIndex and sets lastIndex behind it; match[0] is
\* pushed unless markers includes it.
RECURSIVE ExecLoop(_, _, _)
ExecLoop(s, lastIndex, found) ==
    IF lastIndex > Len(s) THEN found
    ELSE LET end == MatchAt(s, lastIndex)
         IN  IF end = 0 THEN ExecLoop(s, lastIndex + 1, found)
             ELSE LET marker == SubSeq(s, lastIndex, end - 1)
                  IN  ExecLoop(s, end,
                               IF marker \in SeqRange(found) THEN found
                               ELSE Append(found, marker))

extractCitationMarkers(txt) == ExecLoop(txt, 1, <<>>)

\* The texts that are scanned are put together from these pieces: single
\* characters (brackets, digits, a letter) and whole markers.
Pieces ==
    {<<"[">>, <<"]">>, <<"1">>, <<"2">>, <<"a">>, <<"[", "1", "]">>, <<"[", "2", "]">>}

Texts ==
    {Flatten(ps, 1, Len(ps)) : ps \in UNION {[1..n -> Pieces] : n \in 0..MaxPieces}}

InitMarkers ==
    /\ text \in Texts
    /\ markers = <<>>
    /\ content = {}
    /\ contentRows = <<>>
    /\ citations = <<>>
    /\ foreign_keys = FALSE
    /\ pc = "idle"
    /\ error = ""
    /\ before = Store(<<>>, <<>>)
    /\ NoResult
    /\ alone = NoCall
    /\ NoReport
    /\ NoPage

\* extractCitationMarkers(text)
ExtractCitationMarkers ==
    /\ op = "none"
    /\ markers' = extractCitationMarkers(text)
    /\ op' = "extractCitationMarkers"
    /\ UNCHANGED <<content, citations, arg, ret, repeated, contentRows, foreign_keys,
                   pc, error, before, alone, text, reportVars, pageVars>>

NextMarkers == ExtractCitationMarkers

\* One scan of one text.
SpecMarkers == InitMarkers /\ [][NextMarkers]_vars

-----------------------------------------------------------------------------
(* lib/markdown-utils.ts: parseCitationMap *)

\* \s of the regular expressions, and [a-zA-Z0-9_]. The word References is one
\* element of a string here, a run of letters.
Whitespace == {" ", "\n"}

IdChars == Digits \cup {"a", "b", "References"}

\* The index behind the longest run of characters of class that starts at
\* index i of s.
RECURSIVE RunEnd(_, _, _)
RunEnd(s, i, class) ==
    IF i <= Len(s) /\ s[i] \in class THEN RunEnd(s, i + 1, class) ELSE i

\* /##\s+References\s+/ tried at index i of s: the index behind the match, 0
\* if there is none. Both \s+ take the whole run of whitespace; giving a
\* character back cannot help, what has to follow not being whitespace.
HeadingAt(s, i) ==
    IF i + 1 <= Len(s) /\ s[i] = "#" /\ s[i + 1] = "#"
    THEN LET j == RunEnd(s, i + 2, Whitespace)
         IN  IF j > i + 2 /\ j <= Len(s) /\ s[j] = "References"
             THEN LET k == RunEnd(s, j + 1, Whitespace)
                  IN  IF k > j + 1 THEN k ELSE 0
             ELSE 0
    ELSE 0

\* ([\s\S]*?)($|##) from index p: the group grows a character at a time
\* until the end of the string or "##" follows; the index behind the group.
RECURSIVE LazyEnd(_, _)
LazyEnd(s, p) ==
    IF p > Len(s) THEN p
    ELSE IF p + 1 <= Len(s) /\ s[p] = "#" /\ s[p + 1] = "#" THEN p
    ELSE LazyEnd(s, p + 1)

\* markdown.match(...): the leftmost index at which the expression matches
\* decides; referencesMatch[1] is the group, null is found = FALSE.
RECURSIVE ReferencesMatch(_, _)
ReferencesMatch(md, i) ==
    IF i > Len(md) THEN [found |-> FALSE, section |-> <<>>]
    ELSE LET k == HeadingAt(md, i)
         IN  IF k = 0 THEN ReferencesMatch(md, i + 1)
             ELSE [found |-> TRUE, section |-> SubSeq(md, k, LazyEnd(md, k) - 1)]

\* /\[(\d+)\]\s+([a-zA-Z0-9_]+)/ tried at index i of s: where the whitespace
\* ends and the index behind the match, or 0 if there is none.
CitationAt(s, i) ==
    LET m == MatchAt(s, i)
        w == RunEnd(s, m, Whitespace)
        e == RunEnd(s, w, IdChars)
    IN  IF m # 0 /\ w > m /\ e > w THEN [id |-> w, end |-> e] ELSE [id |-> 0, end |-> 0]

\* map[key] = value
Put(map, key, value) ==
    [k \in DOMAIN map \cup {key} |-> IF k = key THEN value ELSE map[k]]

\* CitationLoop with "if (!(key in map)) map[key] = chunkId": the first
\* reference of a marker is kept.
RECURSIVE CitationLoopKeepFirst(_, _, _)
CitationLoopKeepFirst(s, lastIndex, map) ==
    IF lastIndex > Len(s) THEN map
    ELSE LET match == CitationAt(s, lastIndex)
         IN  IF match.end = 0 THEN CitationLoopKeepFirst(s, lastIndex + 1, map)
             ELSE LET key == SubSeq(s, lastIndex, MatchAt(s, lastIndex) - 1)
                  IN  CitationLoopKeepFirst(s, match.end,
                          IF key \in DOMAIN map THEN map
                          ELSE Put(map, key, SubSeq(s, match.id, match.end - 1)))

\* while ((match = citationRegex.exec(referencesSection)) !== null)
\*     map[`[${number}]`] = chunkId
RECURSIVE CitationLoop(_, _, _)
CitationLoop(s, lastIndex, map) ==
    IF lastIndex > Len(s) THEN map
    ELSE LET match == CitationAt(s, lastIndex)
         IN  IF match.end = 0 THEN CitationLoop(s, lastIndex + 1, map)
             ELSE CitationLoop(s, match.end,
                               Put(map, SubSeq(s, lastIndex, MatchAt(s, lastIndex) - 1),
                                   SubSeq(s, match.id, match.end - 1)))

parseCitationMap(md) ==
    LET referencesMatch == ReferencesMatch(md, 1)
    IN  IF ~referencesMatch.found THEN <<>>
        ELSE CitationLoop(referencesMatch.section, 1, <<>>)

\* The markdowns that are parsed are put together from these pieces: the
\* heading of the References section, reference lines, and single elements.
MarkdownPieces ==
    {<<"#", "#", " ", "References", "\n">>,
     <<"[", "1", "]", " ", "a", "\n">>,
     <<"[", "1", "]", " ", "b", "\n">>,
     <<"[", "2", "]", " ", "a", "\n">>,
     <<"#", "#">>, <<"#">>, <<" ">>, <<"\n">>, <<"a">>, <<"References">>}

Markdowns ==
    {Flatten(ps, 1, Len(ps)) : ps \in UNION {[1..n -> MarkdownPieces] : n \in 0..MaxMarkdownPieces}}

InitCitationMap ==
    /\ markdown \in Markdowns
    /\ citationMap = <<>>
    /\ parts = <<>>
    /\ text = <<>>
    /\ markers = <<>>
    /\ content = {}
    /\ contentRows = <<>>
    /\ citations = <<>>
    /\ foreign_keys = FALSE
    /\ pc = "idle"
    /\ error = ""
    /\ before = Store(<<>>, <<>>)
    /\ NoResult
    /\ alone = NoCall
    /\ NoPage

\* const citationMap = useMemo(() => parseCitationMap(markdown), [markdown])
ParseCitationMap ==
    /\ op = "none"
    /\ citationMap' = parseCitationMap(markdown)
    /\ op' = "parseCitationMap"
    /\ UNCHANGED <<content, citations, arg, ret, repeated, contentRows, foreign_keys,
                   pc, error, before, alone, text, markers, markdown, parts, pageVars>>

NextCitationMap == ParseCitationMap

\* One markdown parsed once.
SpecCitationMap == InitCitationMap /\ [][NextCitationMap]_vars

-----------------------------------------------------------------------------
(* components/insight-report.tsx: processTextWithCitations *)

\* citationMap[marker] of a marker the map does not hold.
undefined == <<"undefined">>

Lookup(map, key) == IF key \in DOMAIN map THEN map[key] ELSE undefined

\* The parts a string child is replaced with: strings and CitationLink
\* elements. Of the props of a CitationLink its marker and chunkId are kept;
\* chunk (the preview of the popover) and onViewFull are the same for every
\* link of a marker.
TextPart(str) == [type |-> "string", text |-> str]

CitationLink(marker, chunkId) == [type |-> "CitationLink", marker |-> marker, chunkId |-> chunkId]

\* child.indexOf(marker, fromIndex): the least index at or behind fromIndex
\* at which marker stands, 0 (for -1) if there is none. Indices count from 1.
IndexOf(child, marker, fromIndex) ==
    LET at == {i \in fromIndex..(Len(child) - Len(marker) + 1) :
                  SubSeq(child, i, i + Len(marker) - 1) = marker}
    IN  IF at = {} THEN 0 ELSE CHOOSE i \in at : \A j \in at : i <= j

\* ForEachMarker with "lastIndex = markerIndex": the marker is left in the
\* text that is still to be added.
RECURSIVE ForEachMarkerKeepIndex(_, _, _, _, _)
ForEachMarkerKeepIndex(child, map, ms, lastIndex, acc) ==
    IF ms = <<>> THEN [parts |-> acc, lastIndex |-> lastIndex]
    ELSE LET marker == Head(ms)
             markerIndex == IndexOf(child, marker, lastIndex)
             before_ == IF markerIndex > lastIndex
                        THEN <<TextPart(SubSeq(child, lastIndex, markerIndex - 1))>>
                        ELSE <<>>
         IN  IF markerIndex = 0
             THEN ForEachMarkerKeepIndex(child, map, Tail(ms), lastIndex, acc)
             ELSE ForEachMarkerKeepIndex(child, map, Tail(ms), markerIndex,
                      acc \o before_ \o <<CitationLink(marker, Lookup(map, marker))>>)

\* markers.forEach((marker) => { ... }): the text between lastIndex and the
\* next place of the marker is added, then a CitationLink for the marker, and
\* lastIndex is set behind the marker.
RECURSIVE ForEachMarker(_, _, _, _, _)
ForEachMarker(child, map, ms, lastIndex, acc) ==
    IF ms = <<>> THEN [parts |-> acc, lastIndex |-> lastIndex]
    ELSE LET marker == Head(ms)
             markerIndex == IndexOf(child, marker, lastIndex)
             before_ == IF markerIndex > lastIndex
                        THEN <<TextPart(SubSeq(child, lastIndex, markerIndex - 1))>>
                        ELSE <<>>
         IN  IF markerIndex = 0
             THEN ForEachMarker(child, map, Tail(ms), lastIndex, acc)
             ELSE ForEachMarker(child, map, Tail(ms), markerIndex + Len(marker),
                      acc \o before_ \o <<CitationLink(marker, Lookup(map, marker))>>)

\* What the map callback returns for a string child: the child itself if it
\* has no marker, else the parts with the text behind the last link added.
processTextWithCitations(child, map) ==
    LET found == extractCitationMarkers(child)
        each == ForEachMarker(child, map, found, 1, <<>>)
    IN  IF found = <<>> THEN <<TextPart(child)>>
        ELSE IF each.lastIndex <= Len(child)
             THEN Append(each.parts, TextPart(SubSeq(child, each.lastIndex, Len(child))))
             ELSE each.parts

\* The string children that are processed.
Children ==
    {Flatten(ps, 1, Len(ps)) : ps \in UNION {[1..n -> Pieces] : n \in 0..MaxChildPieces}}

\* The citation maps: none, one or both of the markers have a chunk id.
CitationMaps ==
    {<<>>,
     (<<"[", "1", "]">> :> <<"a">>),
     (<<"[", "1", "]">> :> <<"a">>) @@ (<<"[", "2", "]">> :> <<"b">>)}

InitReport ==
    /\ text \in Children
    /\ citationMap \in CitationMaps
    /\ markdown = <<>>
    /\ markers = <<>>
    /\ parts = <<>>
    /\ content = {}
    /\ contentRows = <<>>
    /\ citations = <<>>
    /\ foreign_keys = FALSE
    /\ pc = "idle"
    /\ error = ""
    /\ before = Store(<<>>, <<>>)
    /\ NoResult
    /\ alone = NoCall
    /\ NoPage

\* The p renderer of InsightReport for a paragraph with the one child text.
ProcessTextWithCitations ==
    /\ op = "none"
    /\ markers' = extractCitationMarkers(text)
    /\ parts' = processTextWithCitations(text, citationMap)
    /\ op' = "processTextWithCitations"
    /\ UNCHANGED <<content, citations, arg, ret, repeated, contentRows, foreign_keys,
                   pc, error, before, alone, text, markdown, citationMap, pageVars>>

NextReport == ProcessTextWithCitations

\* One paragraph rendered once.
SpecReport == InitReport /\ [][NextReport]_vars

-----------------------------------------------------------------------------
(* app/page.tsx, components/citation-link.tsx, components/lineage-sheet.tsx *)

\* A call of fetchLineage that has not returned: the chunkId of its closure
\* and the server action it awaits. The calls in flight are kept in slots.
Fetch(chunkId, call) == [chunkId |-> chunkId, awaiting |-> call]

Idle == Fetch(0, "none")

Slots == 1..MaxFetches

InFlight == {slot \in Slots : fetches[slot] # Idle}

\* a.citation_marker of a root node: the nodes the getFullLineage action
\* builds have the fields chunk_id, depth, chunk and children.
CitationMarkerOf(node) ==
    IF "citation_marker" \in DOMAIN node THEN node.citation_marker ELSE undefined

\* parseInt(marker.replace(/\D/g, ""), 10) for a marker with a digit.
RECURSIVE Decimal(_)
Decimal(ds) ==
    IF ds = <<>> THEN 0
    ELSE 10 * Decimal(SubSeq(ds, 1, Len(ds) - 1)) + (IF ds[Len(ds)] = "1" THEN 1 ELSE 2)

ParseInt(marker) == Decimal(SelectSeq(marker, LAMBDA ch : ch \in Digits))

\* The compare function of the sort: 0 if one of the two nodes has no
\* citation_marker.
Compare(a, b) ==
    LET aMarker == CitationMarkerOf(a)
        bMarker == CitationMarkerOf(b)
    IN  IF aMarker = undefined \/ bMarker = undefined THEN 0
        ELSE ParseInt(aMarker) - ParseInt(bMarker)

\* lineageNodes.sort(compare): the sort is stable, a node goes behind the
\* nodes that do not compare greater.
RECURSIVE SortNodes(_, _)
SortNodes(list, heap) ==
    IF list = <<>> THEN <<>>
    ELSE LET sorted == SortNodes(SubSeq(list, 1, Len(list) - 1), heap)
             node == list[Len(list)]
             k == CHOOSE i \in 0..Len(sorted) :
                      /\ \A j \in (i + 1)..Len(sorted) : Compare(heap[sorted[j]], heap[node]) > 0
                      /\ i = 0 \/ Compare(heap[sorted[i]], heap[node]) <= 0
         IN  SubSeq(sorted, 1, k) \o <<node>> \o SubSeq(sorted, k + 1, Len(sorted))

\* sortedLineage: what setLineage is given when getFullLineage(chunkId) has
\* returned.
SortedLineage(chunkId) ==
    LET lineageNodes == getFullLineage(chunkId)
    IN  [roots |-> SortNodes(lineageNodes.roots, lineageNodes.nodes),
         nodes |-> lineageNodes.nodes]

\* handleCitationClick without setSheetOpen(true).
handleCitationClickKeepsClosed(chunkId) ==
    /\ selectedChunk' = chunkId
    /\ UNCHANGED sheetOpen

\* handleCitationClick of Home
handleCitationClick(chunkId) ==
    /\ selectedChunk' = chunkId
    /\ sheetOpen' = TRUE

\* The effect of LineageSheet after the render with the props open =
\* sheetOpen' and chunkId = selectedChunk': it runs if one of the two has
\* changed, and calls fetchLineage if the sheet is open on a chunk:
\* setLoading(true), and getChunk(chunkId) is awaited.
Effect ==
    IF <<sheetOpen', selectedChunk'>> # <<sheetOpen, selectedChunk>>
           /\ sheetOpen' /\ selectedChunk' # 0
    THEN /\ Slots \ InFlight # {}
         /\ LET slot == CHOOSE free \in Slots \ InFlight :
                            \A other \in Slots \ InFlight : free <= other
            IN  fetches' = [fetches EXCEPT ![slot] = Fetch(selectedChunk', "getChunk")]
         /\ sheet' = [sheet EXCEPT !.loading = TRUE]
    ELSE UNCHANGED <<fetches, sheet>>

PageFrame ==
    UNCHANGED <<content, citations, op, arg, ret, repeated, contentRows, foreign_keys,
                pc, error, before, alone, text, markers, reportVars>>

\* onMouseEnter and onMouseLeave of the marker
MouseEnter ==
    /\ open' = TRUE
    /\ UNCHANGED <<selectedChunk, sheetOpen, sheet, fetches>>
    /\ PageFrame

MouseLeave ==
    /\ open' = FALSE
    /\ UNCHANGED <<selectedChunk, sheetOpen, sheet, fetches>>
    /\ PageFrame

\* onClick of the marker of a CitationLink with the given chunkId. The marker
\* is the child of the PopoverTrigger, which may call onOpenChange on the
\* same click.
Click(chunkId) ==
    /\ handleCitationClick(chunkId)
    /\ open' \in BOOLEAN
    /\ Effect
    /\ PageFrame

\* onViewFull of its popover: the "View Full Lineage" button, which the
\* open popover of a link with a chunk shows.
ViewFull(chunkId) ==
    /\ open
    /\ chunkId \in content
    /\ open' = FALSE
    /\ handleCitationClick(chunkId)
    /\ Effect
    /\ PageFrame

\* onOpenChange(false) of the Sheet: setSheetOpen(false)
CloseSheet ==
    /\ sheetOpen
    /\ sheetOpen' = FALSE
    /\ UNCHANGED <<selectedChunk, open>>
    /\ Effect
    /\ PageFrame

\* await getChunk(chunkId) returns: setRootChunk(chunk), and
\* getFullLineage(chunkId) is awaited.
GetChunkReturns(slot) ==
    /\ fetches[slot].awaiting = "getChunk"
    /\ sheet' = [sheet EXCEPT !.rootChunk = dbGetChunk(fetches[slot].chunkId)]
    /\ fetches' = [fetches EXCEPT ![slot].awaiting = "getFullLineage"]
    /\ UNCHANGED <<selectedChunk, sheetOpen, open>>
    /\ PageFrame

\* await getFullLineage(chunkId) returns: the root nodes are sorted,
\* setLineage(sortedLineage), and setLoading(false) of the finally block.
GetFullLineageReturns(slot) ==
    /\ fetches[slot].awaiting = "getFullLineage"
    /\ sheet' = [sheet EXCEPT !.lineage = SortedLineage(fetches[slot].chunkId),
                              !.loading = FALSE]
    /\ fetches' = [fetches EXCEPT ![slot] = Idle]
    /\ UNCHANGED <<selectedChunk, sheetOpen, open>>
    /\ PageFrame

\* The awaited server action rejects: console.error of the catch block and
\* setLoading(false) of the finally block.
Rejects(slot) ==
    /\ fetches[slot].awaiting # "none"
    /\ sheet' = [sheet EXCEPT !.loading = FALSE]
    /\ fetches' = [fetches EXCEPT ![slot] = Idle]
    /\ UNCHANGED <<selectedChunk, sheetOpen, open>>
    /\ PageFrame

\* The page as it is mounted, on a database with one of the given citations
\* tables and a content table that holds every chunk.
PageMounted(tables) ==
    /\ citations \in tables
    /\ StoreInBounds(citations)
    /\ content = ChunkIds
    /\ NoResult
    /\ alone = NoCall
    /\ contentRows = RowsFor(content)
    /\ foreign_keys = FALSE
    /\ pc = "idle"
    /\ error = ""
    /\ before = Store(<<>>, <<>>)
    /\ text = <<>>
    /\ markers = <<>>
    /\ NoReport
    /\ selectedChunk = 0
    /\ sheetOpen = FALSE
    /\ open = FALSE
    /\ sheet = [rootChunk |-> NULL,
                lineage |-> [roots |-> <<>>, nodes |-> EmptyMap],
                loading |-> FALSE]
    /\ fetches = [slot \in Slots |-> Idle]

\* A database in the shape of the seeded one: an insight of stage 2 (chunk 1)
\* cites an insight of stage 1 (chunk 2) and a raw chunk (chunk 3), and the
\* insight of stage 1 cites the raw chunk.
StagedCitations == <<Citation(1, 2), Citation(1, 3), Citation(2, 3)>>

InitSheet == PageMounted({StagedCitations})

\* The user hovers, clicks and closes at any time; every server action
\* returns.
NextSheet ==
    \/ MouseEnter
    \/ MouseLeave
    \/ \E chunkId \in ChunkIds : Click(chunkId)
    \/ \E chunkId \in ChunkIds : ViewFull(chunkId)
    \/ CloseSheet
    \/ \E slot \in Slots : GetChunkReturns(slot)
    \/ \E slot \in Slots : GetFullLineageReturns(slot)

\* The step of GetFullLineageReturns(slot) as the slots show it: the call
\* that awaits getFullLineage leaves its slot. No other step of NextSheet
\* does this.
LineageReturned(slot) ==
    /\ fetches[slot].awaiting = "getFullLineage"
    /\ fetches' = [fetches EXCEPT ![slot] = Idle]

\* The page with overlapping calls of fetchLineage. A server action that is
\* awaited returns.
SpecSheet ==
    /\ InitSheet
    /\ [][NextSheet]_vars
    /\ \A slot \in Slots : WF_vars(GetChunkReturns(slot))
    /\ \A slot \in Slots : WF_fetches(LineageReturned(slot))

InitSheetAlone == PageMounted(UNION {[1..n -> Edges] : n \in 0..MaxSheetEdges})

\* The user clicks a citation when no call of fetchLineage is in flight; a
\* server action returns or rejects.
NextSheetAlone ==
    \/ MouseEnter
    \/ MouseLeave
    \/ \E chunkId \in ChunkIds : InFlight = {} /\ Click(chunkId)
    \/ \E chunkId \in ChunkIds : InFlight = {} /\ ViewFull(chunkId)
    \/ CloseSheet
    \/ \E slot \in Slots : GetChunkReturns(slot)
    \/ \E slot \in Slots : GetFullLineageReturns(slot)
    \/ \E slot \in Slots : Rejects(slot)

\* The page with one call of fetchLineage at a time.
SpecSheetAlone == InitSheetAlone /\ [][NextSheetAlone]_vars

-----------------------------------------------------------------------------
(* Properties of the page and of the lineage sheet *)

\* The sheet presents the chunk and the lineage of the given chunk id.
Presents(chunkId) ==
    /\ sheet.rootChunk = dbGetChunk(chunkId)
    /\ sheet.lineage = SortedLineage(chunkId)

\* A call of fetchLineage for the given chunk id is in flight.
Fetching(chunkId) == \E slot \in Slots : fetches[slot].chunkId = chunkId

\* C23: a click on the marker of chunk c, or on the "View Full Lineage"
\* button of its popover, leaves sheetOpen = true and selectedChunk = c; the
\* button also closes the popover; the click that opens the sheet, or moves
\* it to another chunk, starts a call of fetchLineage for c with loading
\* true; and a call of fetchLineage for c leads to the sheet showing the
\* lineage of c with loading false, when the server actions return.
C23_ClickShowsLineage ==
    /\ [][\A c \in ChunkIds :
              /\ (Click(c) \/ ViewFull(c)) => (sheetOpen' /\ selectedChunk' = c)
              /\ ViewFull(c) => ~open'
              /\ ((Click(c) \/ ViewFull(c)) /\ (~sheetOpen \/ selectedChunk # c))
                     => /\ sheet'.loading
                        /\ \E slot \in Slots \ InFlight :
                               fetches'[slot] = Fetch(c, "getChunk")]_vars
    /\ \A c \in ChunkIds :
           Fetching(c) ~> (sheet.lineage = SortedLineage(c) /\ ~sheet.loading)

\* The sheet, opened from the button of the popover, shows the lineage tree
\* of the selected chunk.
C23_Witness ==
    /\ sheetOpen /\ ~open
    /\ selectedChunk # 0
    /\ InFlight = {}
    /\ Presents(selectedChunk)
    /\ sheet.lineage.roots # <<>>

\* C27: loading is true as long as a call of fetchLineage is in flight, and
\* once none is in flight, the open sheet presents the chunk and the lineage
\* of the chunk selected last.
C27_LatestSelectionShown ==
    /\ InFlight # {} => sheet.loading
    /\ (InFlight = {} /\ sheetOpen /\ selectedChunk # 0) => Presents(selectedChunk)

\* C28: whenever loading is false and the sheet shows lineage nodes, the
\* chunk and the lineage it shows are those of one chunk id.
C28_LineageOfShownChunk ==
    (~sheet.loading /\ sheet.lineage.roots # <<>>)
        => \E chunkId \in ChunkIds : Presents(chunkId)

\* The chunks a chunk cites, in the order of their citation markers: the
\* citations of a chunk are numbered [1], [2], ... in the order of their rows.
MarkerOrder(chunkId) ==
    LET cited == SelectSeq(citations, LAMBDA c : c.source_chunk_id = chunkId
                                                    /\ c.target_chunk_id \in content)
    IN  [i \in 1..Len(cited) |-> cited[i].target_chunk_id]

\* The chunk ids of the root nodes of the lineage the sheet shows, in the
\* order it shows them.
ShownOrder ==
    [i \in 1..Len(sheet.lineage.roots) |-> sheet.lineage.nodes[sheet.lineage.roots[i]].chunk_id]

\* C24: when the sheet shows the lineage of the selected chunk, its root
\* nodes are in the order of the citation markers of that chunk.
C24_MarkerOrderShown ==
    (InFlight = {} /\ sheetOpen /\ selectedChunk # 0 /\ Presents(selectedChunk))
        => ShownOrder = MarkerOrder(selectedChunk)

-----------------------------------------------------------------------------
(* Properties of the flat traversal, db getFullLineage *)

\* The sum of f[lo], ..., f[hi].
RECURSIVE SumRange(_, _, _)
SumRange(f, lo, hi) ==
    IF lo > hi THEN 0
    ELSE IF lo = hi THEN f[lo]
    ELSE LET mid == (lo + hi) \div 2
         IN  SumRange(f, lo, mid) + SumRange(f, mid + 1, hi)

Outgoing(c) == {i \in 1..Len(citations) : citations[i].source_chunk_id = c}

\* The citation paths root = c0 -> c1 -> ... -> cd, each the sequence of the
\* ids of its d citations rows, so that parallel edges give distinct paths.
RECURSIVE PathsOfLength(_, _)
PathsOfLength(root, d) ==
    IF d = 1 THEN {<<i>> : i \in Outgoing(root)}
    ELSE LET shorter == PathsOfLength(root, d - 1)
         IN  UNION {{Append(path, i) :
                        i \in Outgoing(citations[path[Len(path)]].target_chunk_id)} :
                    path \in shorter}

RowOfPath(path) ==
    LET e == citations[path[Len(path)]]
    IN  LineageRow(e.target_chunk_id, Len(path), e.source_chunk_id)

Occurrences(s, x) == Cardinality({i \in 1..Len(s) : s[i] = x})

FlatReturned == op = "dbGetFullLineage"

\* C1: the flat traversal returns exactly one row (target, depth, parent) per
\* citation path of length 1..10 from the root, parallel edges counted
\* separately, and no other row; a root without outgoing edges gives the
\* empty list.
C1_OneRowPerPath ==
    FlatReturned =>
        /\ \A i \in 1..Len(rows) : rows[i].depth \in 1..MaxDepth
        /\ \A d \in 1..MaxDepth :
               LET paths == PathsOfLength(arg, d)
               IN  \A t \in ChunkIds, p \in ChunkIds :
                       Occurrences(rows, LineageRow(t, d, p))
                           = Cardinality({path \in paths : RowOfPath(path) = LineageRow(t, d, p)})
        /\ (Outgoing(arg) = {} => rows = <<>>)

\* A result with two equal rows (parallel paths) that goes beyond depth 1.
C1_Witness ==
    /\ FlatReturned
    /\ \E i \in 1..Len(rows), j \in 1..Len(rows) : i # j /\ rows[i] = rows[j]
    /\ \E i \in 1..Len(rows) : rows[i].depth > 1

RowsOfDepth(d) == Cardinality({i \in 1..Len(rows) : rows[i].depth = d})

\* C5: no row is deeper than 10, so a row of depth 10 is not expanded; the
\* cutoff loses nothing above it: every row of depth d < 10 is expanded into
\* one row of depth d + 1 per citation of its target, and the root into one
\* row of depth 1 per citation of its own.
C5_DepthCutoff ==
    FlatReturned =>
        /\ \A i \in 1..Len(rows) : rows[i].depth <= MaxDepth
        /\ RowsOfDepth(1) = Cardinality(Outgoing(arg))
        /\ \A d \in 1..(MaxDepth - 1) :
               RowsOfDepth(d + 1) =
                   SumRange([i \in 1..Len(rows) |->
                                IF rows[i].depth = d
                                THEN Cardinality(Outgoing(rows[i].target_chunk_id))
                                ELSE 0],
                            1, Len(rows))

\* A branch is cut: a row of depth 10 whose target has citations of its own.
C5_Witness ==
    /\ FlatReturned
    /\ \E i \in 1..Len(rows) :
           rows[i].depth = MaxDepth /\ Outgoing(rows[i].target_chunk_id) # {}

\* C6: every row has depth 1 and the root as parent, or depth d > 1 and a
\* parent that is the target of a row of depth d - 1 of the same result.
C6_DepthMonotone ==
    FlatReturned =>
        \A i \in 1..Len(rows) :
            \/ rows[i].depth = 1 /\ rows[i].parent_id = arg
            \/ /\ rows[i].depth > 1
               /\ \E j \in 1..Len(rows) :
                      /\ rows[j].target_chunk_id = rows[i].parent_id
                      /\ rows[j].depth = rows[i].depth - 1

\* A row of depth 3 whose parent is neither the root nor its own target.
C6_Witness ==
    /\ FlatReturned
    /\ \E i \in 1..Len(rows) :
           /\ rows[i].depth = 3
           /\ rows[i].parent_id # arg
           /\ rows[i].parent_id # rows[i].target_chunk_id

\* C9: consecutive rows are in (depth, target_chunk_id) order.
C9_Ordered ==
    FlatReturned =>
        \A i \in 1..(Len(rows) - 1) :
            \/ rows[i].depth < rows[i + 1].depth
            \/ /\ rows[i].depth = rows[i + 1].depth
               /\ rows[i].target_chunk_id <= rows[i + 1].target_chunk_id

\* Rows of one depth whose targets the citations table holds in descending
\* order.
C9_Witness ==
    /\ FlatReturned
    /\ \E i \in 1..(Len(rows) - 1) :
           /\ rows[i].depth = rows[i + 1].depth
           /\ rows[i].target_chunk_id < rows[i + 1].target_chunk_id
           /\ \E a \in Outgoing(rows[i].parent_id), b \in Outgoing(rows[i].parent_id) :
                  /\ a < b
                  /\ citations[a].target_chunk_id = rows[i + 1].target_chunk_id
                  /\ citations[b].target_chunk_id = rows[i].target_chunk_id

-----------------------------------------------------------------------------
(* Properties of the assembled forest, the getFullLineage action *)

ForestReturned == op = "getFullLineage"

ChildrenOf(S) == UNION {SeqRange(nodes[p].children) : p \in S}

\* The nodes at nesting level k: the root nodes at level 1, their children at
\* level 2, and so on.
RECURSIVE LevelNodes(_)
LevelNodes(k) == IF k = 1 THEN SeqRange(roots) ELSE ChildrenOf(LevelNodes(k - 1))

\* The nodes of the forest: those reachable from the root list.
RECURSIVE Closure(_)
Closure(S) == IF ChildrenOf(S) \subseteq S THEN S ELSE Closure(S \cup ChildrenOf(S))

InForest == Closure(SeqRange(roots))

\* In how many places (elements of the root list or of a children list of a
\* node of the forest) the node object n stands.
Places(n) ==
    Occurrences(roots, n)
        + SumRange([k \in 1..Len(SortedIds) |->
                       IF SortedIds[k] \in InForest
                       THEN Occurrences(nodes[SortedIds[k]].children, n)
                       ELSE 0],
                   1, Len(SortedIds))

CitedBy(S) ==
    {citations[i].target_chunk_id : i \in {j \in 1..Len(citations) :
                                               citations[j].source_chunk_id \in S}}

RECURSIVE CitedClosure(_)
CitedClosure(S) == IF CitedBy(S) \subseteq S THEN S ELSE CitedClosure(S \cup CitedBy(S))

\* The chunks a chunk of S cites, directly or through other chunks.
Cites(S) == CitedClosure(CitedBy(S))

\* The root reaches a citation cycle (or lies on one).
CycleFrom(root) == \E c \in Cites({root}) \cup {root} : c \in Cites({c})

\* The claims about the shape of the assembled forest are stated for the
\* stores without a citation cycle below the root (C4 is the claim about the
\* others) ...
Acyclic == ~CycleFrom(arg)

\* ... and in which every citation names a chunk the content table holds (C7
\* is the claim about the others).
Resolvable == \A i \in 1..Len(citations) : citations[i].target_chunk_id \in content

\* C2: no silent merge: every place of the forest holds a node object of its
\* own, with its own depth and children list, so a chunk reached by two
\* citation paths stands in the forest as two nodes, never as one shared node.
C2_NoSilentMerge ==
    (ForestReturned /\ Acyclic /\ Resolvable) => \A n \in InForest : Places(n) <= 1

\* C3: every root node has depth 1 and every node in the children list of a
\* node of depth d has depth d + 1.
C3_NestedDepths ==
    (ForestReturned /\ Acyclic /\ Resolvable) =>
        /\ \A n \in SeqRange(roots) : nodes[n].depth = 1
        /\ \A p \in InForest : \A n \in SeqRange(nodes[p].children) :
               nodes[n].depth = nodes[p].depth + 1

\* C4: with a citation cycle below the root the query still returns, and what
\* it returns is cut at the maximum depth: no row is deeper than 10, and no
\* chain root node -> child -> ... of the forest is longer than 10 nodes.
C4_CycleTruncated ==
    (ForestReturned /\ CycleFrom(arg)) =>
        /\ \A i \in 1..Len(rows) : rows[i].depth <= MaxDepth
        /\ \E i \in 1..Len(rows) : rows[i].depth = MaxDepth
        /\ LevelNodes(MaxDepth + 1) = {}

\* C7: a citation whose target the content table does not hold costs the
\* forest the node of that target only: every chunk the traversal reaches and
\* the content table holds is a node of the forest.
C7_OnlyMissingOmitted ==
    (ForestReturned /\ Acyclic) =>
        \A i \in 1..Len(rows) :
            rows[i].target_chunk_id \in content => rows[i].target_chunk_id \in InForest

Skipped == \E i \in 1..Len(rows) : rows[i].target_chunk_id \notin content

\* The traversal has cut a branch: a row of depth 10 whose target has
\* citations of its own.
Truncated ==
    \E i \in 1..Len(rows) :
        rows[i].depth = MaxDepth /\ Outgoing(rows[i].target_chunk_id) # {}

\* What the caller of getFullLineage gets: the root list and the node objects
\* that can be reached from it.
Answer == [roots |-> roots, nodes |-> [n \in InForest |-> nodes[n]]]

\* C16: read-path anomalies are reported: the answer of a call that has
\* skipped a target or cut a branch carries a record of it, so it is not the
\* answer of a call on the same store that has done neither.
C16_AnomalyReported ==
    [][(/\ ForestReturned /\ ~Skipped /\ ~Truncated
        /\ ForestReturned' /\ (Skipped' \/ Truncated')) => Answer' # Answer]_vars

\* How many citations of the chunk s name the target t.
EdgesTo(s, t) == Cardinality({i \in Outgoing(s) : citations[i].target_chunk_id = t})

\* C17: duplicate edges are preserved: a target that n citations of the root
\* name has n rows of depth 1 in the flat list and, if the content table holds
\* it, n entries in the root list of getFullLineage and n entries in the list
\* of getDirectCitations; two citations of one target give two entries.
C17_DuplicateEdgesKept ==
    ForestReturned =>
        \A t \in ChunkIds :
            /\ Occurrences(rows, LineageRow(t, 1, arg)) = EdgesTo(arg, t)
            /\ t \in content =>
                   /\ Occurrences(roots, t) = EdgesTo(arg, t)
                   /\ Occurrences(getDirectCitations(arg), Chunk(t)) = EdgesTo(arg, t)

\* The root cites one target twice and another once; the first stands twice in
\* the root list.
C17_Witness ==
    /\ ForestReturned
    /\ \E t \in content, u \in content :
           /\ t # u
           /\ EdgesTo(arg, t) = 2
           /\ EdgesTo(arg, u) = 1
           /\ Occurrences(roots, t) = 2

\* The row finds a node of its own but none for its parent_id.
Orphan(row) ==
    /\ row.depth > 1
    /\ row.target_chunk_id \in DOMAIN nodes
    /\ row.parent_id \notin DOMAIN nodes

\* C18: orphan handling: a row of depth > 1 whose parent_id has no node is
\* dropped (a chunk that only such rows name is no node of the forest), and
\* the assembly returns all other nodes: the node of every other row that has
\* one is a node of the forest.
C18_OrphansDropped ==
    ForestReturned =>
        /\ \A t \in DOMAIN nodes :
               (\A i \in 1..Len(rows) : rows[i].target_chunk_id = t => Orphan(rows[i]))
                   => t \notin InForest
        /\ \A i \in 1..Len(rows) :
               (rows[i].target_chunk_id \in DOMAIN nodes /\ ~Orphan(rows[i]))
                   => rows[i].target_chunk_id \in InForest

\* The nodes that stand below the node n: its children, their children, ...
Below(n) == Closure(SeqRange(nodes[n].children))

\* C25: for every citations table, cyclic ones included, the forest is a
\* finite acyclic structure: no node is reached from itself over children
\* links, and no chain root node -> child -> ... is longer than 10 nodes.
C25_FiniteForest ==
    ForestReturned =>
        /\ \A n \in InForest : n \notin Below(n)
        /\ LevelNodes(MaxDepth + 1) = {}

\* How many places the unfolded tree below the place of node n has, that
\* place included.
RECURSIVE PlacesBelow(_)
PlacesBelow(n) ==
    1 + SumRange([i \in 1..Len(nodes[n].children) |-> PlacesBelow(nodes[n].children[i])],
                 1, Len(nodes[n].children))

\* How many places the unfolded forest has.
ForestPlaces == SumRange([i \in 1..Len(roots) |-> PlacesBelow(roots[i])], 1, Len(roots))

\* The traversal rows (citation paths from the root) whose chunk and path
\* ancestors the content table holds.
ResolvingPaths ==
    UNION {{path \in PathsOfLength(arg, d) :
               \A k \in 1..Len(path) : citations[path[k]].target_chunk_id \in content} :
           d \in 1..MaxDepth}

\* C26: tree assembly preserves multiplicity: the unfolded forest has one
\* place per traversal row whose chunk and path ancestors resolve, no row is
\* attached more than once. (Stated where the forest can be unfolded: no
\* citation cycle below the root.)
C26_MultiplicityKept ==
    (ForestReturned /\ Acyclic) => ForestPlaces = Cardinality(ResolvingPaths)

-----------------------------------------------------------------------------
(* Properties of the getDirectCitations action *)

\* C10: the chunks getDirectCitations returns are the chunks of the root nodes
\* of getFullLineage for the same chunk id, each as many times; both skip the
\* targets the content table does not hold.
C10_DirectIsDepthOne ==
    op = "getDirectCitations" =>
        LET full == getFullLineage(arg)
        IN  /\ Len(chunks) = Len(full.roots)
            /\ \A c \in ChunkIds :
                   Occurrences(chunks, Chunk(c))
                       = Cardinality({i \in 1..Len(full.roots) :
                                         full.nodes[full.roots[i]].chunk = Chunk(c)})

\* One target returned twice, another skipped because the content table does
\* not hold it.
C10_Witness ==
    /\ op = "getDirectCitations"
    /\ \E i \in 1..Len(chunks), j \in 1..Len(chunks) : i # j /\ chunks[i] = chunks[j]
    /\ \E i \in Outgoing(arg) : citations[i].target_chunk_id \notin content

-----------------------------------------------------------------------------
(* Properties of interleaved queries *)

-----------------------------------------------------------------------------
(* Properties of the writes: the seed script and the two schemas *)

\* The script has emptied both tables: what they hold now, this run has
\* inserted.
Cleared == pc \in {"insertChunks", "insertCitations", "done", "failed"}

StageOf(c) == contentRows[CHOOSE i \in 1..Len(contentRows) : contentRows[i].chunk_id = c].stage

RowsKept ==
    /\ \A i \in 1..Len(contentRows) :
           i <= Len(contentRows') /\ contentRows'[i] = contentRows[i]
    /\ \A j \in 1..Len(citations) :
           j <= Len(citations') /\ citations'[j] = citations[j]

\* C13 as claimed: no step of the program deletes or changes a stored chunk or
\* removes a citation.
C13_NeverDeleted == [][RowsKept]_vars

\* C13 as amended: the two DELETE statements at the start of seed() apart, no
\* step deletes or changes a stored chunk or removes a citation.
C13_DeletedOnlyByClear ==
    [][pc \notin {"deleteCitations", "deleteContent"} => RowsKept]_vars

\* A chunk of stage 0 is stored and the INSERT of a chunk with its chunk_id
\* has been refused.
C13_Witness ==
    /\ pc = "failed"
    /\ error = "SQLITE_CONSTRAINT_PRIMARYKEY"
    /\ \E i \in 1..Len(contentRows) : contentRows[i].stage = 0

OneRowPerChunkId ==
    \A i \in 1..Len(contentRows), j \in 1..Len(contentRows) :
        contentRows[i].chunk_id = contentRows[j].chunk_id => i = j

\* C15: the INSERT of a chunk whose chunk_id the content table holds fails:
\* it changes no stored row, and it ends the script with the PRIMARY KEY
\* error; a row that is inserted has a chunk_id no stored row has; the table
\* never holds two rows of one chunk_id.
C15_DuplicateIdRefused ==
    [][/\ OneRowPerChunkId'
       /\ pc = "insertChunks" =>
              /\ \A i \in 1..Len(contentRows) :
                     i <= Len(contentRows') /\ contentRows'[i] = contentRows[i]
              /\ error' = "SQLITE_CONSTRAINT_PRIMARYKEY" =>
                     pc' = "failed" /\ contentRows' = contentRows /\ content' = content
              /\ \A i \in (Len(contentRows) + 1)..Len(contentRows') :
                     contentRows'[i].chunk_id \notin content]_vars

\* The INSERT of a second chunk has been refused: the table holds one row,
\* and that row is of the chunk_id the index holds.
C15_Witness ==
    /\ pc = "failed"
    /\ error = "SQLITE_CONSTRAINT_PRIMARYKEY"
    /\ Len(contentRows) = 1
    /\ content = {contentRows[1].chunk_id}

\* C30: seed integrity: in every state of a run of seed(), between any two
\* statements and after the last, source and target of every citations row
\* are in content; when the run is complete every citation goes from a chunk
\* to a chunk of strictly lower stage, so no chunk cites itself through others,
\* no chunk of stage 0 cites anything, and no lineage is deeper than 2.
C30_SeedIntegrity ==
    /\ \A j \in 1..Len(citations) :
           {citations[j].source_chunk_id, citations[j].target_chunk_id} \subseteq content
    /\ pc = "done" =>
           /\ \A j \in 1..Len(citations) :
                  /\ StageOf(citations[j].source_chunk_id) > StageOf(citations[j].target_chunk_id)
                  /\ StageOf(citations[j].source_chunk_id) # 0
           /\ \A c \in content : c \notin Cites({c})
           /\ \A i \in 1..Len(citations), j \in 1..Len(citations) :
                  citations[i].target_chunk_id = citations[j].source_chunk_id =>
                      Outgoing(citations[j].target_chunk_id) = {}

\* The script has run on the database an earlier run has seeded: 22 chunks,
\* 23 citations, lineages of depth 2.
C30_Witness ==
    /\ pc = "done"
    /\ before.citations # <<>>
    /\ Len(contentRows) = 22
    /\ Len(citations) = 23
    /\ \E i \in 1..Len(citations), j \in 1..Len(citations) :
           citations[i].target_chunk_id = citations[j].source_chunk_id

-----------------------------------------------------------------------------
(* Properties of extractCitationMarkers *)

\* text[i..j] is a bracketed number: "[", one or more digits, "]".
MarkerAt(i, j) ==
    /\ i + 1 < j
    /\ j <= Len(text)
    /\ text[i] = "["
    /\ text[j] = "]"
    /\ \A k \in (i + 1)..(j - 1) : text[k] \in Digits

\* The bracketed numbers that occur in text.
MarkersIn == {SubSeq(text, i, j) : i \in 1..Len(text), j \in 1..Len(text)} \ {<<>>}

Occurring ==
    {m \in MarkersIn : \E i \in 1..Len(text) : MarkerAt(i, i + Len(m) - 1)
                                                   /\ SubSeq(text, i, i + Len(m) - 1) = m}

\* Where the marker m occurs first in text.
FirstAt(m) ==
    CHOOSE i \in 1..Len(text) :
        /\ SubSeq(text, i, i + Len(m) - 1) = m
        /\ \A k \in 1..(i - 1) : SubSeq(text, k, k + Len(m) - 1) # m

\* C20: extractCitationMarkers returns every bracketed number that occurs in
\* the text, each once, in the order of their first occurrences, and nothing
\* else.
C20_DistinctMarkersInOrder ==
    op = "extractCitationMarkers" =>
        /\ SeqRange(markers) = Occurring
        /\ \A a \in 1..Len(markers), b \in 1..Len(markers) :
               a < b => FirstAt(markers[a]) < FirstAt(markers[b])

\* The text of the test: [1], [2], [1], [2], [1] gives "[1]", "[2]".
C20_Witness ==
    /\ op = "extractCitationMarkers"
    /\ text = <<"[", "1", "]", "[", "2", "]", "[", "1", "]", "[", "2", "]", "[", "1", "]">>
    /\ markers = << <<"[", "1", "]">>, <<"[", "2", "]">> >>

-----------------------------------------------------------------------------
(* Properties of parseCitationMap *)

Parsed == op = "parseCitationMap"

\* "##", whitespace, the word References and whitespace stand at i..(j - 1)
\* of markdown, and what stands at j is not whitespace.
ReferencesHeading(i, j) ==
    /\ i + 1 <= Len(markdown)
    /\ markdown[i] = "#"
    /\ markdown[i + 1] = "#"
    /\ \E a \in (i + 3)..(j - 2) :
           /\ a <= Len(markdown)
           /\ markdown[a] = "References"
           /\ \A k \in ((i + 2)..(a - 1)) \cup ((a + 1)..(j - 1)) :
                  k <= Len(markdown) /\ markdown[k] \in Whitespace
    /\ j <= Len(markdown) + 1
    /\ j <= Len(markdown) => markdown[j] \notin Whitespace

Positions == 1..(Len(markdown) + 1)

\* Where a heading of a References section starts.
HeadingStarts == {i \in Positions : \E j \in Positions : ReferencesHeading(i, j)}

HasReferences == HeadingStarts # {}

\* The References section: what stands behind the first heading, up to the
\* next "##" or to the end of the markdown.
SectionFrom ==
    LET first == CHOOSE i \in HeadingStarts : \A h \in HeadingStarts : i <= h
    IN  CHOOSE j \in Positions : ReferencesHeading(first, j)

HashesAt(p) == p + 1 <= Len(markdown) /\ markdown[p] = "#" /\ markdown[p + 1] = "#"

SectionTo(from) ==
    CHOOSE p \in from..(Len(markdown) + 1) :
        /\ p = Len(markdown) + 1 \/ HashesAt(p)
        /\ \A q \in from..(p - 1) : ~HashesAt(q)

\* The references that stand in markdown[from..(to - 1)]: a marker "[n]" at
\* p, whitespace, and a chunk id that ends where the run of its characters or
\* the section ends. The reference is a line if it stands at the start of a
\* line and blanks separate marker and chunk id.
References(from, to) ==
    UNION {
        IF markdown[p] # "[" THEN {}
        ELSE UNION {
            UNION {
                {[at |-> p,
                  marker |-> SubSeq(markdown, p, j),
                  chunkId |-> SubSeq(markdown, c, e),
                  line |-> /\ p = from \/ markdown[p - 1] = "\n"
                           /\ \A k \in (j + 1)..(c - 1) : markdown[k] = " "] :
                 e \in {d \in c..(to - 1) :
                           /\ \A k \in c..d : markdown[k] \in IdChars
                           /\ d + 1 < to => markdown[d + 1] \notin IdChars}} :
              c \in {d \in (j + 2)..(to - 1) :
                        /\ \A k \in (j + 1)..(d - 1) : markdown[k] \in Whitespace
                        /\ markdown[d] \in IdChars}} :
          j \in {d \in (p + 2)..(to - 1) :
                    /\ markdown[d] = "]"
                    /\ \A k \in (p + 1)..(d - 1) : markdown[k] \in Digits}} :
      p \in from..(to - 1)}

\* The references of the References section of markdown.
SectionReferences ==
    IF HasReferences THEN References(SectionFrom, SectionTo(SectionFrom)) ELSE {}

\* Every entry of the map is a reference of the References section, and
\* without such a section the map is empty.
OnlyFromSection(refs) ==
    /\ \A marker \in DOMAIN citationMap :
           \E r \in refs : r.marker = marker /\ r.chunkId = citationMap[marker]
    /\ ~HasReferences => citationMap = <<>>

\* C21 as claimed: the map holds "[n]" -> chunk_id for every reference line
\* "[n] chunk_id" of the References section and no entry that is derived from
\* text outside that section; without a References section it is empty.
C21_EveryReferenceLine ==
    Parsed =>
        LET refs == SectionReferences
        IN  /\ OnlyFromSection(refs)
            /\ \A r \in refs :
                   r.line => /\ r.marker \in DOMAIN citationMap
                             /\ citationMap[r.marker] = r.chunkId

\* C21 as amended: the map holds the marker of every reference of the
\* section, with the chunk id of that reference unless the section repeats
\* the marker further down: the map holds one chunk id per marker, that of
\* the last reference of the marker.
C21_LastReferenceLine ==
    Parsed =>
        LET refs == SectionReferences
        IN  /\ OnlyFromSection(refs)
            /\ \A r \in refs :
                   /\ r.marker \in DOMAIN citationMap
                   /\ \/ citationMap[r.marker] = r.chunkId
                      \/ \E later \in refs : later.marker = r.marker /\ later.at > r.at

\* Two reference lines of one marker with different chunk ids and a line of
\* another marker: the map holds the second chunk id of the first marker.
C21_Witness ==
    /\ Parsed
    /\ \E r \in SectionReferences, later \in SectionReferences :
           /\ r.line
           /\ later.line
           /\ r.at < later.at
           /\ r.marker = later.marker
           /\ r.chunkId # later.chunkId
           /\ citationMap[r.marker] = later.chunkId
    /\ Cardinality(DOMAIN citationMap) = 2

-----------------------------------------------------------------------------
(* Properties of processTextWithCitations *)

Processed == op = "processTextWithCitations"

\* What a part shows: a string itself, a CitationLink its marker.
Shown(part) == IF part.type = "CitationLink" THEN part.marker ELSE part.text

\* Where in the rendered paragraph the k-th part starts.
PartStart(k) == 1 + SumRange([i \in 1..Len(parts) |-> Len(Shown(parts[i]))], 1, k - 1)

\* C22: every place of a citation marker in the string child, a second place
\* of one marker included, is rendered as a CitationLink that carries the
\* marker and the chunk id citationMap[marker].
C22_EveryMarkerIsLink ==
    Processed =>
        \A i \in 1..Len(text), j \in 1..Len(text) :
            MarkerAt(i, j) =>
                \E k \in 1..Len(parts) :
                    /\ PartStart(k) = i
                    /\ parts[k] = CitationLink(SubSeq(text, i, j),
                                               Lookup(citationMap, SubSeq(text, i, j)))

\* C29: the parts, each CitationLink taken as its marker text, concatenated
\* in order are the string child: no character is lost, doubled or moved.
C29_TextPreserved ==
    Processed =>
        Flatten([k \in 1..Len(parts) |-> Shown(parts[k])], 1, Len(parts)) = text

\* A child with text before a marker, a second place of that marker and
\* another marker behind it: links and strings alternate.
C29_Witness ==
    /\ Processed
    /\ Len(markers) = 2
    /\ \E i \in 1..Len(text), j \in 1..Len(text) :
           /\ i < j
           /\ MarkerAt(i, i + 2)
           /\ MarkerAt(j, j + 2)
           /\ SubSeq(text, i, i + 2) = SubSeq(text, j, j + 2)
    /\ parts[1].type = "string"
    /\ \E k \in 1..Len(parts) : parts[k].type = "CitationLink" /\ parts[k].chunkId = undefined

====
